---- MODULE Spec2Model ----
(***************************************************************************)
(* Chatlytics: the chat-log parser (parsing.py) and the analytics engine   *)
(* (analysis.py) as state machines.                                        *)
(*                                                                         *)
(* Text is a sequence of atoms: "a", "b", "c" are visible characters,      *)
(* "SP" is one whitespace character, "NL" is the newline that join()       *)
(* inserts, "MEDIA" is the whole string of one media placeholder           *)
(* ('<Media omitted>', ...), "TS" is the verbatim text of a timestamp      *)
(* prefix.  A raw timestamp is the record of the features strptime and     *)
(* the line regexes look at.  A parsed timestamp keeps month, day and      *)
(* hour; NullTs is Python's None.                                          *)
(***************************************************************************)
EXTENDS Integers, Sequences, FiniteSets, TLC

\* ----------------------------------------------------------------- bounds
MaxLines == 3
MaxRecords == 2
MaxMsgs == 3
MaxSize == 2
MaxClock == 4

\* ------------------------------------------------------------- vocabulary
NoSender == "None"

NullTs == [src |-> "null", fmt |-> 0, mo |-> 0, d |-> 0, h |-> 0]

NowSet ==
  { [src |-> "now", fmt |-> 0, mo |-> 11, d |-> 2, h |-> 18],
    [src |-> "now", fmt |-> 0, mo |-> 11, d |-> 2, h |-> 19] }

Raw(shape, a, b, ylen, hour, ampm, sec) ==
  [shape |-> shape, a |-> a, b |-> b, ylen |-> ylen, hour |-> hour,
   ampm |-> ampm, sec |-> sec]

Min(S) == CHOOSE x \in S : \A y \in S : x <= y

Max(S) == CHOOSE x \in S : \A y \in S : x >= y

\* ------------------------------------------------- _parse_timestamp (147)
\* A variant that lists the month-first templates before the day-first ones.
FmtsMonthFirst ==
  << [order |-> "mdy", ylen |-> 2, clock |-> 12, sec |-> FALSE],
     [order |-> "mdy", ylen |-> 4, clock |-> 12, sec |-> FALSE],
     [order |-> "dmy", ylen |-> 4, clock |-> 12, sec |-> FALSE],
     [order |-> "dmy", ylen |-> 2, clock |-> 12, sec |-> FALSE],
     [order |-> "dmy", ylen |-> 4, clock |-> 24, sec |-> FALSE],
     [order |-> "dmy", ylen |-> 2, clock |-> 24, sec |-> FALSE],
     [order |-> "dmy", ylen |-> 2, clock |-> 12, sec |-> TRUE],
     [order |-> "dmy", ylen |-> 4, clock |-> 12, sec |-> TRUE],
     [order |-> "dmy", ylen |-> 2, clock |-> 12, sec |-> TRUE],
     [order |-> "iso", ylen |-> 4, clock |-> 24, sec |-> TRUE],
     [order |-> "isoFracZ", ylen |-> 4, clock |-> 24, sec |-> TRUE],
     [order |-> "isoOff", ylen |-> 4, clock |-> 24, sec |-> TRUE] >>

\* The twelve templates of fmts, in source order.  order "dmy"/"mdy" are
\* the slash templates; the other orders name the one ISO form they accept.
Fmts ==
  << [order |-> "dmy", ylen |-> 4, clock |-> 12, sec |-> FALSE],
     [order |-> "dmy", ylen |-> 2, clock |-> 12, sec |-> FALSE],
     [order |-> "dmy", ylen |-> 4, clock |-> 24, sec |-> FALSE],
     [order |-> "dmy", ylen |-> 2, clock |-> 24, sec |-> FALSE],
     [order |-> "dmy", ylen |-> 2, clock |-> 12, sec |-> TRUE],
     [order |-> "dmy", ylen |-> 4, clock |-> 12, sec |-> TRUE],
     [order |-> "mdy", ylen |-> 2, clock |-> 12, sec |-> FALSE],
     [order |-> "mdy", ylen |-> 4, clock |-> 12, sec |-> FALSE],
     [order |-> "dmy", ylen |-> 2, clock |-> 12, sec |-> TRUE],
     [order |-> "iso", ylen |-> 4, clock |-> 24, sec |-> TRUE],
     [order |-> "isoFracZ", ylen |-> 4, clock |-> 24, sec |-> TRUE],
     [order |-> "isoOff", ylen |-> 4, clock |-> 24, sec |-> TRUE] >>

\* datetime.strptime(ts.strip(), fmt) succeeds.  A value that is not a
\* string has no strip(): the AttributeError is caught like a ValueError.
\* Days stay below 29, so every day is valid in every month.
FmtParses(f, raw) ==
  IF f.order \in {"dmy", "mdy"}
  THEN /\ raw.shape = "slash"
       /\ raw.ylen = f.ylen
       /\ raw.sec = f.sec
       /\ IF f.clock = 12
          THEN raw.ampm \in {"AM", "PM"} /\ raw.hour \in 1..12
          ELSE raw.ampm = "" /\ raw.hour \in 0..23
       /\ IF f.order = "dmy"
          THEN raw.a \in 1..28 /\ raw.b \in 1..12
          ELSE raw.a \in 1..12 /\ raw.b \in 1..28
  ELSE raw.shape = f.order

\* %I with %p: 12 AM is hour 0, 12 PM is hour 12.
Hour24(raw) ==
  IF raw.ampm = "PM" THEN (raw.hour % 12) + 12
  ELSE IF raw.ampm = "AM" THEN raw.hour % 12
  ELSE raw.hour

\* The datetime strptime builds under template number i.
FmtResult(i, raw) ==
  IF Fmts[i].order = "dmy"
  THEN [src |-> "fmt", fmt |-> i, mo |-> raw.b, d |-> raw.a, h |-> Hour24(raw)]
  ELSE [src |-> "fmt", fmt |-> i, mo |-> raw.a, d |-> raw.b, h |-> Hour24(raw)]

\* datetime.fromisoformat(ts.strip()) succeeds (line 160).
IsoParses(raw) ==
  raw.shape \in {"iso", "isoFracZ", "isoOff", "isoFrac", "isoDate"}

FmtHits(raw) == {i \in 1..Len(Fmts) : FmtParses(Fmts[i], raw)}

\* A variant whose last handler lets the failure escape.
ParseTimestampRaising(raw, now) ==
  IF FmtHits(raw) # {} THEN FmtResult(Min(FmtHits(raw)), raw)
  ELSE IF IsoParses(raw)
  THEN [src |-> "iso", fmt |-> 0, mo |-> raw.a, d |-> raw.b, h |-> raw.hour]
  ELSE [src |-> "raised", fmt |-> 0, mo |-> 0, d |-> 0, h |-> 0]

ParseTimestamp(raw, now) ==
  IF FmtHits(raw) # {} THEN FmtResult(Min(FmtHits(raw)), raw)
  ELSE IF IsoParses(raw)
  THEN [src |-> "iso", fmt |-> 0, mo |-> raw.a, d |-> raw.b, h |-> raw.hour]
  ELSE now

\* ------------------------------------------------------------------- text
Strip(t) ==
  LET keep == {i \in 1..Len(t) : t[i] # "SP"}
  IN  IF keep = {} THEN <<>> ELSE SubSeq(t, Min(keep), Max(keep))

IsBlank(t) == \A i \in 1..Len(t) : t[i] \in {"SP", "NL"}

\* message in self.media_placeholders (lines 28-31): exact equality.
media_placeholders == { <<"MEDIA">> }

RECURSIVE Join(_)
\* '\n'.join(buffer)
Join(buf) ==
  IF buf = <<>> THEN <<>>
  ELSE IF Len(buf) = 1 THEN buf[1]
  ELSE buf[1] \o <<"NL">> \o Join(Tail(buf))

\* ------------------------------------------------------ the line grammars
Line(prefix, ts, sender, rest) ==
  [prefix |-> prefix, ts |-> ts, sender |-> sender, rest |-> rest]

\* The timestamp part of android_message_re / android_system_re: slash or
\* dash separated date, a comma, hh:mm, optional am/pm, never seconds.
AndroidTsRe(ts) == ts.shape \in {"slash", "dashsep"} /\ ~ts.sec

\* The bracketed timestamp of ios_message_re / ios_system_re.
IosTsRe(ts) == ts.shape \in {"slash", "dashsep"}

\* The timestamp part of ig_text_re.
IgTsRe(ts) == ts.shape \in {"iso", "isoFracZ", "isoOff", "isoFrac"}

match_android(l) ==
  l.prefix = "dash" /\ AndroidTsRe(l.ts) /\ l.sender # NoSender

match_ios(l) ==
  l.prefix = "bracket" /\ IosTsRe(l.ts) /\ l.sender # NoSender

\* (?P<msg>.+) needs at least one character after the dash.
match_android_sys(l) ==
  l.prefix = "dash" /\ AndroidTsRe(l.ts) /\ (l.sender # NoSender \/ l.rest # <<>>)

match_ios_sys(l) ==
  l.prefix = "bracket" /\ IosTsRe(l.ts) /\ (l.sender # NoSender \/ l.rest # <<>>)

match_ig_text(l) ==
  l.prefix = "dash" /\ IgTsRe(l.ts) /\ l.sender # NoSender

\* line.strip('\n\r') is empty (line 44).
IsEmptyLine(l) == l.prefix = "none" /\ l.rest = <<>>

\* A variant that tries the system-only grammars first.
ClassifySystemFirst(l) ==
  IF IsEmptyLine(l) THEN "empty"
  ELSE IF match_android_sys(l) THEN "android_sys"
  ELSE IF match_ios_sys(l) THEN "ios_sys"
  ELSE IF match_android(l) THEN "android"
  ELSE IF match_ios(l) THEN "ios"
  ELSE IF match_ig_text(l) THEN "ig_text"
  ELSE "none"

\* The branch of the if/elif chain (lines 52-112) the line takes.
Classify(l) ==
  IF IsEmptyLine(l) THEN "empty"
  ELSE IF match_android(l) THEN "android"
  ELSE IF match_ios(l) THEN "ios"
  ELSE IF match_android_sys(l) THEN "android_sys"
  ELSE IF match_ios_sys(l) THEN "ios_sys"
  ELSE IF match_ig_text(l) THEN "ig_text"
  ELSE "none"

HeaderKinds == {"android", "ios", "android_sys", "ios_sys", "ig_text"}

\* The verbatim text of a line, as buffer.append(line) stores it.
LineText(l) ==
  IF l.prefix = "none" THEN l.rest ELSE <<"TS">> \o l.rest

\* ------------------------------------------------------------ input pools
T1 == Raw("slash", 5, 1, 2, 10, "", FALSE)

T2 == Raw("slash", 3, 1, 2, 9, "", FALSE)

TSec == Raw("slash", 5, 1, 2, 10, "PM", TRUE)

TDash == Raw("dashsep", 5, 1, 2, 10, "", FALSE)

TIso == Raw("iso", 1, 4, 4, 8, "", TRUE)

TIsoEarly == Raw("iso", 1, 2, 4, 8, "", TRUE)

TJunk == Raw("junk", 0, 0, 0, 0, "", FALSE)

TEpoch == Raw("epoch", 1, 6, 4, 7, "", TRUE)

Lines ==
  { Line("dash", T1, "A", <<"a">>),
    Line("dash", T2, "B", <<"b">>),
    Line("dash", T1, "A", <<>>),
    Line("dash", T1, "A", <<"MEDIA">>),
    Line("dash", T1, NoSender, <<"a">>),
    Line("bracket", TSec, "B", <<"b">>),
    Line("bracket", T1, NoSender, <<"a">>),
    Line("dash", TIso, "A", <<"a">>),
    Line("dash", TDash, "A", <<"SP", "a">>),
    Line("dash", TSec, "A", <<"a">>),
    Line("none", TJunk, NoSender, <<"c">>),
    Line("none", TJunk, NoSender, <<"SP">>),
    Line("none", TJunk, NoSender, <<"MEDIA">>),
    Line("none", TJunk, NoSender, <<>>) }

\* Records of the JSON export: the key that carries the time, its value,
\* the key that carries the sender, and the key that carries the body.
Rec(tsKey, tsVal, senderKey, sender, contentKey, content) ==
  [tsKey |-> tsKey, tsVal |-> tsVal, senderKey |-> senderKey,
   sender |-> sender, contentKey |-> contentKey, content |-> content]

Records ==
  { Rec("timestamp_ms", TEpoch, "sender_name", "A", "content", <<"a">>),
    Rec("created_at", TIso, "sender", "B", "text", <<"b">>),
    Rec("created_at", TIsoEarly, "sender_name", "A", "content", <<"c">>),
    Rec("created_at", TJunk, "sender_name", "B", "content", <<"b">>),
    Rec("timestamp", TIso, "sender_name", "A", "content", <<"a">>),
    Rec("timestamp_ms", TEpoch, "none", NoSender, "content", <<"a">>),
    Rec("timestamp_ms", TEpoch, "sender_name", "A", "none", <<>>) }

\* The JSON document: a dict with a 'messages' key, a bare list, a dict
\* without 'messages' whose first list-of-dicts value is items, or a scalar.
ContainerShapes == {"messages_obj", "list", "other_obj", "scalar"}

Containers ==
  { [shape |-> sh, items |-> it] :
      sh \in ContainerShapes,
      it \in UNION { [1..n -> Records] : n \in 0..MaxRecords } }

NoData == [shape |-> "none", items |-> <<>>]

Exts == {"txt", "json", "csv"}

\* Config.ALLOWED_EXTENSIONS (config.py line 14).
ALLOWED_EXTENSIONS == {"txt", "json"}

VARIABLES
  pc,        \* "idle", "lines" (inside the loop of _parse_text_lines), "done"
  ext,       \* the extension of the filename handed to parse_file
  input,     \* the lines read so far
  data,      \* the JSON document handed to _parse_instagram_json
  messages,  \* the output list
  buffer,    \* continuation lines of the open message
  current,   \* <<>> for None, else <<the open message>>
  outcome,   \* "none", "returned"
  tsPc,      \* "off", "call", "returned": one call of _parse_timestamp
  tsRaw,     \* its argument
  tsNow,     \* what datetime.now() would answer during the call
  tsResult,  \* its result
  anPc,      \* "off", "call", "done": one call of analyze_chat;
             \* "rt", "rtdone": one call of _analyze_response_times_detailed;
             \* "pass", "starters", "streaks", "first": one call of one
             \* of three passes; "fun", "fundone": the passes behind the
             \* leaders
  chat,      \* its argument, the message list
  result,    \* its result
  aiPc,      \* "off", "start", "test", "tested", "done": one call of
             \* generate_insights
  api_key,   \* whether Config.OPENROUTER_API_KEY is set
  api_working, \* what test_api_connection answered
  insights,  \* the result of generate_insights
  cache,     \* AnalyticsCache.cache, a dict as a function
  access_times, \* AnalyticsCache.access_times: key -> reading of the clock
  max_size,  \* AnalyticsCache.max_size; 0 while no cache is modelled
  clock,     \* the last reading of datetime.now()
  call       \* the last call on the cache: op, key, value, and the
             \* lru_key it deleted ("" for none)

parserVars == <<pc, ext, input, data, messages, buffer, current, outcome>>

tsVars == <<tsPc, tsRaw, tsNow, tsResult>>

anVars == <<anPc, chat, result>>

aiVars == <<aiPc, api_key, api_working, insights>>

cacheVars == <<cache, access_times, max_size, clock, call>>

vars == <<parserVars, tsVars, anVars, aiVars, cacheVars>>

notParser == <<tsVars, anVars, aiVars, cacheVars>>

notTs == <<parserVars, anVars, aiVars, cacheVars>>

notAn == <<parserVars, tsVars, aiVars, cacheVars>>

notAi == <<parserVars, tsVars, anVars, cacheVars>>

notCache == <<parserVars, tsVars, anVars, aiVars>>

\* ------------------------------------------------------- _parse_text_lines
\* The dict built at lines 58-63 (and its four copies); idx is the position
\* of the opening line in the input, kept to relate output to input.
OpenMessage(kind, l, now, idx) ==
  [timestamp |-> ParseTimestamp(l.ts, now),
   sender |-> IF kind \in {"android_sys", "ios_sys"} THEN NoSender ELSE l.sender,
   message |-> Strip(l.rest),
   is_system |-> kind \in {"android_sys", "ios_sys"},
   idx |-> idx]

\* Lines 53-55 (and 65-67, 77-79, 89-91, 101-103): what a header line does
\* to the output list before it opens its own message.
FlushOnHeader(msgs, buf, cur) ==
  IF buf # <<>> /\ cur # <<>>
  THEN Append(msgs, [cur[1] EXCEPT !.message = @ \o Join(buf)])
  ELSE msgs

\* A variant that puts the last message in front of the list.
FlushAtEndFront(msgs, buf, cur) ==
  IF cur = <<>> THEN msgs
  ELSE LET text == IF buf # <<>> THEN cur[1].message \o Join(buf)
                   ELSE cur[1].message
       IN  IF text \notin media_placeholders
           THEN <<[cur[1] EXCEPT !.message = text]>> \o msgs
           ELSE msgs

\* Lines 115-119: the flush at the end of the input.
FlushAtEnd(msgs, buf, cur) ==
  IF cur = <<>> THEN msgs
  ELSE LET text == IF buf # <<>> THEN cur[1].message \o Join(buf)
                   ELSE cur[1].message
       IN  IF text \notin media_placeholders
           THEN Append(msgs, [cur[1] EXCEPT !.message = text])
           ELSE msgs

\* One header line taking the branch of grammar kind.
HeaderLine(kind, l, now) ==
  /\ pc = "lines"
  /\ Len(input) < MaxLines
  /\ Classify(l) = kind
  /\ input' = Append(input, l)
  /\ messages' = FlushOnHeader(messages, buffer, current)
  /\ buffer' = <<>>
  /\ current' = <<OpenMessage(kind, l, now, Len(input) + 1)>>
  /\ UNCHANGED <<pc, ext, data, outcome, notParser>>

MatchAndroid == \E l \in Lines, now \in NowSet : HeaderLine("android", l, now)

MatchIos == \E l \in Lines, now \in NowSet : HeaderLine("ios", l, now)

MatchAndroidSys == \E l \in Lines, now \in NowSet : HeaderLine("android_sys", l, now)

MatchIosSys == \E l \in Lines, now \in NowSet : HeaderLine("ios_sys", l, now)

MatchIgText == \E l \in Lines, now \in NowSet : HeaderLine("ig_text", l, now)

\* A variant that buffers the line also when no message is open.
NoMatchAlwaysBuffers ==
  \E l \in Lines :
    /\ pc = "lines"
    /\ Len(input) < MaxLines
    /\ Classify(l) = "none"
    /\ input' = Append(input, l)
    /\ buffer' = Append(buffer, LineText(l))
    /\ UNCHANGED <<pc, ext, data, messages, current, outcome, notParser>>

\* Lines 112-114: a line no grammar matches.
NoMatch ==
  \E l \in Lines :
    /\ pc = "lines"
    /\ Len(input) < MaxLines
    /\ Classify(l) = "none"
    /\ input' = Append(input, l)
    /\ buffer' = IF current # <<>> THEN Append(buffer, LineText(l)) ELSE buffer
    /\ UNCHANGED <<pc, ext, data, messages, current, outcome, notParser>>

\* Lines 44-45: an empty line is skipped.
SkipEmpty ==
  \E l \in Lines :
    /\ pc = "lines"
    /\ Len(input) < MaxLines
    /\ Classify(l) = "empty"
    /\ input' = Append(input, l)
    /\ UNCHANGED <<pc, ext, data, messages, buffer, current, outcome, notParser>>

\* Lines 115-120: the loop ends and the list is returned.
EndOfInput ==
  /\ pc = "lines"
  /\ messages' = FlushAtEnd(messages, buffer, current)
  /\ pc' = "done"
  /\ outcome' = "returned"
  /\ UNCHANGED <<ext, input, data, buffer, current, notParser>>

\* --------------------------------------------------- _parse_instagram_json
\* datetime.fromtimestamp(msg['timestamp_ms'] / 1000), line 133.
FromTimestampMs(v) == [src |-> "ms", fmt |-> 0, mo |-> v.a, d |-> v.b, h |-> v.hour]

\* Lines 131-144: the message built from one record.
ConvertRecord(r, now, idx) ==
  [timestamp |-> IF r.tsKey = "timestamp_ms" THEN FromTimestampMs(r.tsVal)
                 ELSE IF r.tsKey = "created_at" THEN ParseTimestamp(r.tsVal, now)
                 ELSE NullTs,
   sender |-> IF r.senderKey \in {"sender_name", "sender"} /\ r.sender # ""
              THEN r.sender ELSE NoSender,
   message |-> IF r.contentKey \in {"content", "text"} THEN r.content ELSE <<>>,
   is_system |-> FALSE,
   idx |-> idx]

\* Lines 122-145.
parse_instagram_json(d, now) ==
  IF d.shape \in {"messages_obj", "list"}
  THEN [i \in 1..Len(d.items) |-> ConvertRecord(d.items[i], now, i)]
  ELSE <<>>

\* -------------------------------------------------------------- parse_file
\* Lines 34-36: a name ending in '.json'.
ParseFileJson ==
  \E d \in Containers, now \in NowSet :
    /\ pc = "idle"
    /\ ext' = "json"
    /\ data' = d
    /\ messages' = parse_instagram_json(d, now)
    /\ pc' = "done"
    /\ outcome' = "returned"
    /\ UNCHANGED <<input, buffer, current, notParser>>

\* Lines 37-38: every other name is read as lines of text.
ParseFileText ==
  \E e \in Exts :
    /\ pc = "idle"
    /\ e # "json"
    /\ ext' = e
    /\ pc' = "lines"
    /\ UNCHANGED <<input, data, messages, buffer, current, outcome, notParser>>

ParserIdle ==
  /\ pc = "idle"
  /\ ext = ""
  /\ input = <<>>
  /\ data = NoData
  /\ messages = <<>>
  /\ buffer = <<>>
  /\ current = <<>>
  /\ outcome = "none"

TsOff ==
  /\ tsPc = "off"
  /\ tsRaw = TJunk
  /\ tsNow = NullTs
  /\ tsResult = NullTs

AnOff ==
  /\ anPc = "off"
  /\ chat = <<>>
  /\ result = <<>>

AiOff ==
  /\ aiPc = "off"
  /\ api_key = FALSE
  /\ api_working = FALSE
  /\ insights = <<>>

CacheOff ==
  /\ cache = <<>>
  /\ access_times = <<>>
  /\ max_size = 0
  /\ clock = 0
  /\ call = [op |-> "none", key |-> "", value |-> "", lru_key |-> ""]

Init == ParserIdle /\ TsOff /\ AnOff /\ AiOff /\ CacheOff

Next ==
  \/ ParseFileJson
  \/ ParseFileText
  \/ MatchAndroid
  \/ MatchIos
  \/ MatchAndroidSys
  \/ MatchIosSys
  \/ MatchIgText
  \/ NoMatch
  \/ SkipEmpty
  \/ EndOfInput

Spec == Init /\ [][Next]_vars

\* ------------------------------------------- one call of _parse_timestamp
RawTsAll ==
  { Raw("slash", a, b, ylen, hour, ampm, sec) :
      a \in {3, 5, 13}, b \in {5, 13}, ylen \in {2, 3, 4}, hour \in {0, 10, 13},
      ampm \in {"", "PM"}, sec \in BOOLEAN }
  \cup { TDash, TIso, TJunk,
         Raw("isoFracZ", 1, 4, 4, 8, "", TRUE),
         Raw("isoOff", 1, 4, 4, 8, "", TRUE),
         Raw("isoFrac", 1, 4, 4, 8, "", TRUE),
         Raw("isoDate", 1, 4, 4, 0, "", FALSE),
         Raw("nonstr", 0, 0, 0, 0, "", FALSE) }

InitTs ==
  /\ ParserIdle
  /\ CacheOff
  /\ AnOff
  /\ AiOff
  /\ tsPc = "call"
  /\ tsRaw \in RawTsAll
  /\ tsNow \in NowSet
  /\ tsResult = NullTs

ParseTimestampCall ==
  /\ tsPc = "call"
  /\ tsResult' = ParseTimestamp(tsRaw, tsNow)
  /\ tsPc' = "returned"
  /\ UNCHANGED <<tsRaw, tsNow, notTs>>

NextTs == ParseTimestampCall

SpecTs == InitTs /\ [][NextTs]_vars

\* ------------------------------------------------- analysis.py: helpers
\* A message of the list handed to analyze_chat: its sender, its timestamp
\* in seconds, and its text as a sequence of token kinds: "short" is a
\* stop-word or a token of at most two characters, "plain" any other word,
\* "aff" a word of affectionate_words, "emoji" an emoji, "affEmoji" an
\* emoji of the affectionate_emojis list.
Msg(sender, ts, tokens) == [sender |-> sender, ts |-> ts, tokens |-> tokens]

RECURSIVE SumSeq(_)
SumSeq(q) == IF q = <<>> THEN 0 ELSE Head(q) + SumSeq(Tail(q))

RECURSIVE ProdSeq(_)
ProdSeq(q) == IF q = <<>> THEN 1 ELSE Head(q) * ProdSeq(Tail(q))

RECURSIVE SortedSeq(_)
\* The elements of a finite set of integers in increasing order.
SortedSeq(S) ==
  IF S = {} THEN <<>> ELSE <<Min(S)>> \o SortedSeq(S \ {Min(S)})

Abs(x) == IF x < 0 THEN -x ELSE x

\* round(n / d, 0) for n >= 0, d > 0.
RoundDiv(n, d) == (2 * n + d) \div (2 * d)

CountOf(q, kinds) == Len(SelectSeq(q, LAMBDA t : t \in kinds))

\* The positions of the messages of sender s.
IdxOf(msgs, s) == {i \in 1..Len(msgs) : msgs[i].sender = s}

SenderSet(msgs) == {msgs[i].sender : i \in 1..Len(msgs)}

\* list(message_counts.keys()): the senders in first-seen order (a Counter
\* keeps insertion order).
SenderOrder(msgs) ==
  LET first == {i \in 1..Len(msgs) :
                  \A j \in 1..(i - 1) : msgs[j].sender # msgs[i].sender}
      order == SortedSeq(first)
  IN  [k \in 1..Len(order) |-> msgs[order[k]].sender]

\* Counter(msg['sender'] for msg in messages), line 21.
message_counts(msgs) ==
  [s \in SenderSet(msgs) |-> Cardinality(IdxOf(msgs, s))]

\* _extract_words, lines 36-40: punctuation and emojis become spaces,
\* stop-words and tokens of at most two characters are dropped.
extract_words(tokens) == SelectSeq(tokens, LAMBDA t : t \in {"plain", "aff"})

\* _calculate_word_counts, lines 28-34.
calculate_word_counts(msgs) ==
  [s \in SenderSet(msgs) |->
     SumSeq([k \in 1..Len(msgs) |->
               IF msgs[k].sender = s THEN Len(extract_words(msgs[k].tokens)) ELSE 0])]

\* Lines 536-541: the score of one message, times 60 (exact while a message
\* has at most six words).
MessageAffection60(m) ==
  LET words == extract_words(m.tokens)
      affectionate_count == CountOf(words, {"aff"})
      emoji_count == CountOf(m.tokens, {"affEmoji"})
      message_length == IF words # <<>> THEN Len(words) ELSE 1
  IN  ((affectionate_count + emoji_count) * 60) \div message_length

\* _calculate_affection_score, lines 529-546: affection_scores, in tenths
\* (round(score / message_count * 100, 1)).
affection_scores(msgs) ==
  [s \in SenderSet(msgs) |->
     RoundDiv(SumSeq([k \in 1..Len(msgs) |->
                        IF msgs[k].sender = s THEN MessageAffection60(msgs[k]) ELSE 0])
                * 1000,
              60 * Cardinality(IdxOf(msgs, s)))]

\* Line 306: curr_msg['timestamp'] - prev_msg['timestamp'], in seconds
\* (time_diff is this number divided by 60).
Gap(msgs, i) == msgs[i].ts - msgs[i - 1].ts

\* A variant that keeps a gap of zero and a gap of one week.
RetainedGapsInclusive(msgs, s) ==
  {i \in 2..Len(msgs) :
     /\ msgs[i].sender = s
     /\ msgs[i - 1].sender # s
     /\ 0 <= Gap(msgs, i)
     /\ Gap(msgs, i) <= 10080 * 60}

\* Lines 302-308: the positions whose gap to the previous message is kept
\* as a response time of sender s (0 < time_diff < 10080 minutes).
RetainedGaps(msgs, s) ==
  {i \in 2..Len(msgs) :
     /\ msgs[i].sender = s
     /\ msgs[i - 1].sender # s
     /\ 0 < Gap(msgs, i)
     /\ Gap(msgs, i) < 10080 * 60}

\* round(minutes, 1) of a number of seconds n / d, in tenths of a minute.
Tenths(n, d) == RoundDiv(n * 10, 60 * d)

\* Lines 302-307: response_times, the retained gaps of each sender in list
\* order, in seconds; only senders with a retained gap have an entry.
response_times(msgs) ==
  [s \in {x \in SenderSet(msgs) : RetainedGaps(msgs, x) # {}} |->
     LET pos == SortedSeq(RetainedGaps(msgs, s))
     IN  [k \in 1..Len(pos) |-> Gap(msgs, pos[k])]]

\* Lines 325-329: average_response_times, in tenths of a minute; only
\* senders with a retained gap have an entry.
average_response_times(msgs) ==
  [s \in DOMAIN response_times(msgs) |->
     Tenths(SumSeq(response_times(msgs)[s]), Len(response_times(msgs)[s]))]

\* The names of the seven buckets, lines 309-324.
Buckets ==
  {"instant", "very_fast", "fast", "medium", "slow", "very_slow", "delivered"}

\* A variant whose first threshold is inclusive.
BucketInstantInclusive(gap) ==
  IF gap <= 1 * 60 THEN "instant"
  ELSE IF gap < 5 * 60 THEN "very_fast"
  ELSE IF gap < 15 * 60 THEN "fast"
  ELSE IF gap < 60 * 60 THEN "medium"
  ELSE IF gap < 180 * 60 THEN "slow"
  ELSE IF gap < 1440 * 60 THEN "very_slow"
  ELSE "delivered"

\* Lines 309-324: the bucket of a retained gap of gap seconds.
Bucket(gap) ==
  IF gap < 1 * 60 THEN "instant"
  ELSE IF gap < 5 * 60 THEN "very_fast"
  ELSE IF gap < 15 * 60 THEN "fast"
  ELSE IF gap < 60 * 60 THEN "medium"
  ELSE IF gap < 180 * 60 THEN "slow"
  ELSE IF gap < 1440 * 60 THEN "very_slow"
  ELSE "delivered"

\* f'{sender}_{bucket}', the key of a counter of response_distribution.
DistKey(s, b) == s \o "_" \o b

\* Lines 307-324 and dict(response_distribution): one counter per key that
\* was incremented at least once.
response_distribution(msgs) ==
  LET kept == UNION {RetainedGaps(msgs, s) : s \in SenderSet(msgs)}
      key(i) == DistKey(msgs[i].sender, Bucket(Gap(msgs, i)))
  IN  [k \in {key(i) : i \in kept} |-> Cardinality({i \in kept : key(i) = k})]

\* Lines 320-324: delivered_status counts the gaps of 180 minutes or more.
delivered_status(msgs) ==
  LET late(s) == {i \in RetainedGaps(msgs, s) :
                    Bucket(Gap(msgs, i)) \in {"very_slow", "delivered"}}
  IN  [s \in {x \in SenderSet(msgs) : late(x) # {}} |-> Cardinality(late(s))]

RECURSIVE InsertSorted(_, _)
InsertSorted(x, q) ==
  IF q = <<>> THEN <<x>>
  ELSE IF x <= Head(q) THEN <<x>> \o q
  ELSE <<Head(q)>> \o InsertSorted(x, Tail(q))

RECURSIVE Sorted(_)
\* sorted(times), line 328.
Sorted(q) == IF q = <<>> THEN <<>> ELSE InsertSorted(Head(q), Sorted(Tail(q)))

\* Line 330: the median, in tenths of a minute.
median_response_times(msgs) ==
  [s \in DOMAIN response_times(msgs) |->
     LET st == Sorted(response_times(msgs)[s])
     IN  Tenths(st[Len(st) \div 2 + 1], 1)]

\* Line 331: the percentiles, in tenths of a minute.
percentile_response_times(msgs) ==
  [s \in DOMAIN response_times(msgs) |->
     LET st == Sorted(response_times(msgs)[s])
     IN  [p25 |-> Tenths(st[Len(st) \div 4 + 1], 1),
          p75 |-> Tenths(st[(Len(st) * 3) \div 4 + 1], 1),
          p90 |-> Tenths(st[(Len(st) * 9) \div 10 + 1], 1),
          min |-> Tenths(st[1], 1),
          max |-> Tenths(st[Len(st)], 1)]]

\* Lines 296-336, reduced to the keys the properties read; response_times
\* is the local list the other keys are computed from.
analyze_response_times_detailed(msgs) ==
  [response_times |-> response_times(msgs),
   average_response_times |-> average_response_times(msgs),
   median_response_times |-> median_response_times(msgs),
   percentile_response_times |-> percentile_response_times(msgs),
   response_distribution |-> response_distribution(msgs),
   delivered_status |-> delivered_status(msgs)]

MaxOf(f) == Max({f[x] : x \in DOMAIN f})

\* ------------------------------------------ _calculate_compatibility_index
\* 1 - abs(a - b) / m as the fraction <<numerator, denominator>>.
Balance(a, b, m) == <<m - Abs(a - b), m>>

\* int((b1 + b2 + b3 + b4) * 25) for four fractions.
ScoreOf(bs) ==
  LET dens == [i \in 1..Len(bs) |-> bs[i][2]]
      nums == [i \in 1..Len(bs) |-> bs[i][1] * (ProdSeq(dens) \div bs[i][2])]
  IN  (25 * SumSeq(nums)) \div ProdSeq(dens)

\* Lines 669-676.
DescriptionOf(score) ==
  IF score >= 80 THEN "perfect match"
  ELSE IF score >= 60 THEN "great duo"
  ELSE IF score >= 40 THEN "balanced pair"
  ELSE "different styles"

Raised(e) == [error |-> e, score |-> 0, description |-> ""]

\* A variant whose guard lets a single sender through to senders[1].
calculate_compatibility_index_unguarded(msgs) ==
  LET mc == message_counts(msgs)
      wc == calculate_word_counts(msgs)
      senders == SenderOrder(msgs)
      s0 == senders[1]
      s1 == senders[2]
      aff == affection_scores(msgs)
      rt == average_response_times(msgs)
      msg_balance == Balance(mc[s0], mc[s1], MaxOf(mc))
      word_balance == Balance(wc[s0], wc[s1], MaxOf(wc))
      affection_balance ==
        IF MaxOf(aff) > 0 THEN Balance(aff[s0], aff[s1], MaxOf(aff)) ELSE <<1, 2>>
      time_balance ==
        IF Cardinality(DOMAIN rt) >= 2
        THEN Balance(rt[s0], rt[s1], MaxOf(rt)) ELSE <<1, 2>>
      score == ScoreOf(<<msg_balance, word_balance, affection_balance, time_balance>>)
  IN  IF Cardinality(DOMAIN mc) < 1
      THEN [error |-> "", score |-> 50, description |-> "Single person conversation"]
      ELSE IF Cardinality(DOMAIN mc) < 2 THEN Raised("IndexError")
      ELSE IF MaxOf(wc) = 0 THEN Raised("ZeroDivisionError")
      ELSE IF Cardinality(DOMAIN rt) >= 2 /\ ~({s0, s1} \subseteq DOMAIN rt)
      THEN Raised("KeyError")
      ELSE IF Cardinality(DOMAIN rt) >= 2 /\ MaxOf(rt) = 0
      THEN Raised("ZeroDivisionError")
      ELSE [error |-> "", score |-> score, description |-> DescriptionOf(score)]

\* Lines 655-677.  error is "" when the function returns, else the name of
\* the exception that leaves it.
calculate_compatibility_index(msgs) ==
  LET mc == message_counts(msgs)
      wc == calculate_word_counts(msgs)
      senders == SenderOrder(msgs)
      s0 == senders[1]
      s1 == senders[2]
      aff == affection_scores(msgs)
      rt == average_response_times(msgs)
      msg_balance == Balance(mc[s0], mc[s1], MaxOf(mc))
      word_balance == Balance(wc[s0], wc[s1], MaxOf(wc))
      affection_balance ==
        IF MaxOf(aff) > 0 THEN Balance(aff[s0], aff[s1], MaxOf(aff)) ELSE <<1, 2>>
      time_balance ==
        IF Cardinality(DOMAIN rt) >= 2
        THEN Balance(rt[s0], rt[s1], MaxOf(rt)) ELSE <<1, 2>>
      score == ScoreOf(<<msg_balance, word_balance, affection_balance, time_balance>>)
  IN  IF Cardinality(DOMAIN mc) < 2
      THEN [error |-> "", score |-> 50, description |-> "Single person conversation"]
      ELSE IF MaxOf(wc) = 0 THEN Raised("ZeroDivisionError")
      ELSE IF Cardinality(DOMAIN rt) >= 2 /\ ~({s0, s1} \subseteq DOMAIN rt)
      THEN Raised("KeyError")
      ELSE IF Cardinality(DOMAIN rt) >= 2 /\ MaxOf(rt) = 0
      THEN Raised("ZeroDivisionError")
      ELSE [error |-> "", score |-> score, description |-> DescriptionOf(score)]

\* ---------------------------------------------------- calendar day and hour
\* msg['timestamp'].strftime('%Y-%m-%d'): the calendar day of a timestamp.
DayOf(ts) == ts \div 86400

\* msg['timestamp'].hour
HourOf(ts) == (ts % 86400) \div 3600

\* The calendar days that have a message.
ActiveDays(msgs) == {DayOf(msgs[i].ts) : i \in 1..Len(msgs)}

\* ---------------------------------- _analyze_conversation_starters_detailed
\* Line 275, in minutes.
time_gap_threshold == 30

\* A variant that also starts a conversation after exactly the threshold.
StartPositionsInclusive(msgs) ==
  {i \in 2..Len(msgs) : Gap(msgs, i) >= time_gap_threshold * 60}
    \cup (IF msgs # <<>> THEN {1} ELSE {})

\* Lines 276-287: the positions that are credited with a conversation
\* start: every message more than the threshold after its predecessor, and
\* the first message.
StartPositions(msgs) ==
  {i \in 2..Len(msgs) : Gap(msgs, i) > time_gap_threshold * 60}
    \cup (IF msgs # <<>> THEN {1} ELSE {})

\* dict(conversation_starts): only senders with a start have an entry.
conversation_starts(msgs) ==
  [s \in {msgs[i].sender : i \in StartPositions(msgs)} |->
     Cardinality({i \in StartPositions(msgs) : msgs[i].sender = s})]

\* Lines 272-294, reduced to conversation_starts.
analyze_conversation_starters_detailed(msgs) ==
  [conversation_starts |-> conversation_starts(msgs)]

\* ------------------------------------------------------ _analyze_streaks_gaps
RECURSIVE StreakLoop(_, _, _)
\* Lines 632-644: the loop over the sorted active days, from position i on;
\* st holds current_streak, current_gap, streaks and gaps.
StreakLoop(dates, i, st) ==
  IF i > Len(dates) THEN st
  ELSE LET day_diff == dates[i] - dates[i - 1]
       IN  StreakLoop(dates, i + 1,
             IF day_diff = 1
             THEN [st EXCEPT
                     !.current_streak = @ + 1,
                     !.gaps = IF st.current_gap > 0
                              THEN Append(@, st.current_gap) ELSE @,
                     !.current_gap = 0]
             ELSE [st EXCEPT
                     !.streaks = IF st.current_streak > 1
                                 THEN Append(@, st.current_streak) ELSE @,
                     !.current_streak = 1,
                     !.current_gap = IF day_diff > 1 THEN day_diff - 1 ELSE @])

\* Lines 618-653; {} for an empty list.
analyze_streaks_gaps(msgs) ==
  LET dates == SortedSeq(ActiveDays(msgs))
      st == StreakLoop(dates, 2, [current_streak |-> 1, current_gap |-> 0,
                                  streaks |-> <<>>, gaps |-> <<>>])
      streaks == IF st.current_streak > 1
                 THEN Append(st.streaks, st.current_streak) ELSE st.streaks
      gaps == IF st.current_gap > 0
              THEN Append(st.gaps, st.current_gap) ELSE st.gaps
  IN  IF msgs = <<>> THEN <<>>
      ELSE IF Len(dates) < 2
      THEN [longest_streak |-> 0, longest_gap |-> 0,
            total_streaks |-> 0, total_gaps |-> 0]
      ELSE [longest_streak |->
              IF streaks = <<>> THEN 0
              ELSE Max({streaks[k] : k \in 1..Len(streaks)}),
            longest_gap |->
              IF gaps = <<>> THEN 0 ELSE Max({gaps[k] : k \in 1..Len(gaps)}),
            total_streaks |-> Len(streaks), total_gaps |-> Len(gaps)]

\* --------------------------------------------------- _analyze_who_thinks_first
\* Lines 747-750: daily_messages, a new list per calendar day that holds
\* the day's messages in list order.
daily_messages(msgs) ==
  [d \in ActiveDays(msgs) |-> SelectSeq(msgs, LAMBDA m : DayOf(m.ts) = d)]

RECURSIVE InsertByTimestamp(_, _)
\* x goes behind every message that is not later than it.
InsertByTimestamp(x, q) ==
  IF q = <<>> THEN <<x>>
  ELSE IF x.ts < Head(q).ts THEN <<x>> \o q
  ELSE <<Head(q)>> \o InsertByTimestamp(x, Tail(q))

RECURSIVE SortByTimestamp(_)
\* list.sort(key=lambda x: x['timestamp']), line 754: a stable sort.
SortByTimestamp(q) ==
  IF q = <<>> THEN <<>>
  ELSE InsertByTimestamp(q[Len(q)], SortByTimestamp(SubSeq(q, 1, Len(q) - 1)))

\* A variant that takes the day's first message in list order.
first_msg_unsorted(day_messages) == day_messages[1]

\* Lines 754-755: the first message of a day's list after the sort.
first_msg(day_messages) == SortByTimestamp(day_messages)[1]

\* Lines 753-760: first_messages and sender_first_counts.
first_messages(msgs) ==
  [d \in ActiveDays(msgs) |->
     [sender |-> first_msg(daily_messages(msgs)[d]).sender,
      ts |-> first_msg(daily_messages(msgs)[d]).ts]]

sender_first_counts(msgs) ==
  LET fm == first_messages(msgs)
  IN  [s \in {fm[d].sender : d \in DOMAIN fm} |->
         Cardinality({d \in DOMAIN fm : fm[d].sender = s})]

\* Lines 743-778, reduced to the keys the properties read; {} for an
\* empty list.
analyze_who_thinks_first(msgs) ==
  IF msgs = <<>> THEN <<>> ELSE
  [daily_first_messages |-> first_messages(msgs),
   sender_first_counts |-> sender_first_counts(msgs),
   total_days_analyzed |-> Cardinality(DOMAIN first_messages(msgs))]

\* ------------------------------------------------------------- the leaders
\* max(d.items(), key=lambda x: x[1])[0] for a dict whose keys were
\* inserted in the order of the sequence order: the first key with the
\* largest value.
MaxByFirst(order, f) ==
  order[Min({k \in 1..Len(order) : f[order[k]] = Max({f[x] : x \in DOMAIN f})})]

\* The messages that hold an emoji, in list order.
WithEmoji(msgs) == SelectSeq(msgs, LAMBDA m : CountOf(m.tokens, {"emoji", "affEmoji"}) > 0)

\* Lines 457-465: sender_emoji_totals; only senders that used an emoji
\* have an entry, inserted when they first use one.
sender_emoji_totals(msgs) ==
  [s \in SenderSet(WithEmoji(msgs)) |->
     SumSeq([k \in 1..Len(msgs) |->
               IF msgs[k].sender = s THEN CountOf(msgs[k].tokens, {"emoji", "affEmoji"}) ELSE 0])]

\* Lines 453-472, reduced to the totals and the leader.
analyze_emoji_personality(msgs) ==
  [sender_emoji_counts |-> sender_emoji_totals(msgs),
   emoji_king |-> IF WithEmoji(msgs) # <<>>
                  THEN MaxByFirst(SenderOrder(WithEmoji(msgs)), sender_emoji_totals(msgs))
                  ELSE "Unknown"]

\* sum(sender_hourly[sender].get(hour, 0) for hour in hours)
HourCount(msgs, s, hours) ==
  Cardinality({i \in IdxOf(msgs, s) : HourOf(msgs[i].ts) \in hours})

\* Lines 391-399: night_owls and early_birds, one entry per sender in
\* first-seen order, and the two leaders.
analyze_time_patterns(msgs) ==
  LET night_owls == [s \in SenderSet(msgs) |->
                       HourCount(msgs, s, 22..23) + HourCount(msgs, s, 0..5)]
      early_birds == [s \in SenderSet(msgs) |-> HourCount(msgs, s, 6..21)]
  IN  [night_owl |-> IF msgs # <<>> THEN MaxByFirst(SenderOrder(msgs), night_owls)
                     ELSE "Unknown",
       early_bird |-> IF msgs # <<>> THEN MaxByFirst(SenderOrder(msgs), early_birds)
                      ELSE "Unknown"]

\* Lines 121-133, reduced to emoji_leader and night_owl.  senders is
\* list(set(...)) of line 122: the senders in the iteration order of a
\* set of strings, which differs from one interpreter run to the next.
calculate_fun_metrics(msgs, senders) ==
  LET night_owl_scores == [s \in SenderSet(msgs) |-> HourCount(msgs, s, 0..5)]
  IN  [emoji_leader |-> IF WithEmoji(msgs) # <<>>
                        THEN MaxByFirst(SenderOrder(WithEmoji(msgs)),
                                        sender_emoji_totals(msgs))
                        ELSE senders[1],
       night_owl |-> MaxByFirst(senders, night_owl_scores),
       night_owl_scores |-> night_owl_scores]

\* A variant in which the sort of line 754 reorders the caller's list.
messages_sorted_in_place(msgs) == SortByTimestamp(msgs)

\* The caller's list after analyze_chat: the list that is sorted at line
\* 754 is the per-day list built at line 750, and no pass assigns to the
\* list it was handed or to one of its messages.
messages_after(msgs) == msgs

\* ------------------------------------------------------------ analyze_chat
\* A variant without the guard of lines 17-18.
analyze_chat_unguarded(msgs) ==
  LET ci == calculate_compatibility_index(msgs)
  IN  IF ci.error # ""
      THEN [raised |-> TRUE, error |-> ci.error, keys |-> {}]
      ELSE [raised |-> FALSE, error |-> "",
            keys |-> {"basic_stats", "conversation_starters",
                      "response_time_analysis", "affection_score",
                      "streaks_gaps", "compatibility_index", "who_thinks_first"},
            conversation_starters |-> analyze_conversation_starters_detailed(msgs),
            streaks_gaps |-> analyze_streaks_gaps(msgs),
            who_thinks_first |-> analyze_who_thinks_first(msgs),
            basic_stats |-> [total_messages |-> Len(msgs),
                             message_counts |-> message_counts(msgs),
                             word_counts |-> calculate_word_counts(msgs)],
            affection_score |-> [affection_scores |-> affection_scores(msgs)],
            response_time_analysis |->
              [average_response_times |-> average_response_times(msgs)],
            compatibility_index |-> [score |-> ci.score,
                                      description |-> ci.description]]

\* Lines 16-26.  The result map, reduced to the keys the properties read;
\* raised says that an exception left the call instead.
analyze_chat(msgs) ==
  IF msgs = <<>>
  THEN [raised |-> FALSE, error |-> "", keys |-> {}]
  ELSE LET ci == calculate_compatibility_index(msgs)
       IN  IF ci.error # ""
           THEN [raised |-> TRUE, error |-> ci.error, keys |-> {}]
           ELSE [raised |-> FALSE, error |-> "",
                 keys |-> {"basic_stats", "conversation_starters",
                           "response_time_analysis", "affection_score",
                           "streaks_gaps", "compatibility_index", "who_thinks_first"},
                 conversation_starters |-> analyze_conversation_starters_detailed(msgs),
                 streaks_gaps |-> analyze_streaks_gaps(msgs),
                 who_thinks_first |-> analyze_who_thinks_first(msgs),
                 basic_stats |-> [total_messages |-> Len(msgs),
                                  message_counts |-> message_counts(msgs),
                                  word_counts |-> calculate_word_counts(msgs)],
                 affection_score |-> [affection_scores |-> affection_scores(msgs)],
                 response_time_analysis |->
                   [average_response_times |-> average_response_times(msgs)],
                 compatibility_index |-> [score |-> ci.score,
                                           description |-> ci.description]]

AnSenders == {"A", "B", "C"}

AnTimes == {0, 300}

AnTokens == { <<"short">>, <<"plain">>, <<"aff", "affEmoji">> }

AnMsgs == {Msg(s, t, k) : s \in AnSenders, t \in AnTimes, k \in AnTokens}

InitAn ==
  /\ ParserIdle
  /\ CacheOff
  /\ TsOff
  /\ AiOff
  /\ anPc = "call"
  /\ chat \in UNION { [1..n -> AnMsgs] : n \in 0..MaxMsgs }
  /\ result = <<>>

AnalyzeChat ==
  /\ anPc = "call"
  /\ result' = analyze_chat(chat)
  /\ chat' = messages_after(chat)
  /\ anPc' = "done"
  /\ UNCHANGED notAn

NextAn == AnalyzeChat

SpecAn == InitAn /\ [][NextAn]_vars

\* --------------------------- one call of _analyze_response_times_detailed
RtSenders == {"A", "B", "A_very"}

\* Seconds: half a minute, the six bucket thresholds and one week.
RtTimes == {0, 30, 60, 300, 900, 3600, 10800, 86400, 604800}

RtMsgs == {Msg(s, t, <<"plain">>) : s \in RtSenders, t \in RtTimes}

InitRt ==
  /\ ParserIdle
  /\ CacheOff
  /\ TsOff
  /\ AiOff
  /\ anPc = "rt"
  /\ chat \in UNION { [1..n -> RtMsgs] : n \in 0..MaxMsgs }
  /\ result = <<>>

AnalyzeResponseTimes ==
  /\ anPc = "rt"
  /\ result' = analyze_response_times_detailed(chat)
  /\ anPc' = "rtdone"
  /\ UNCHANGED <<chat, notAn>>

NextRt == AnalyzeResponseTimes

SpecRt == InitRt /\ [][NextRt]_vars

\* ------------- one call of a pass that reads gaps of minutes and of days
\* Two senders; seconds: 30, 31 and 61 minutes, and the days 0, 1, 5 and 7.
PassMsgs ==
  {Msg(s, t, <<"plain">>) :
     s \in {"A", "B"},
     t \in {0, 1800, 1860, 3660, 86400, 5 * 86400, 7 * 86400}}

InitPass ==
  /\ ParserIdle
  /\ CacheOff
  /\ TsOff
  /\ AiOff
  /\ anPc = "pass"
  /\ chat \in UNION { [1..n -> PassMsgs] : n \in 0..MaxMsgs }
  /\ result = <<>>

AnalyzeConversationStarters ==
  /\ anPc = "pass"
  /\ result' = analyze_conversation_starters_detailed(chat)
  /\ anPc' = "starters"
  /\ UNCHANGED <<chat, notAn>>

AnalyzeStreaksGaps ==
  /\ anPc = "pass"
  /\ result' = analyze_streaks_gaps(chat)
  /\ anPc' = "streaks"
  /\ UNCHANGED <<chat, notAn>>

AnalyzeWhoThinksFirst ==
  /\ anPc = "pass"
  /\ result' = analyze_who_thinks_first(chat)
  /\ chat' = messages_after(chat)
  /\ anPc' = "first"
  /\ UNCHANGED notAn

NextPass ==
  \/ AnalyzeConversationStarters
  \/ AnalyzeStreaksGaps
  \/ AnalyzeWhoThinksFirst

SpecPass == InitPass /\ [][NextPass]_vars

\* ------- the emoji, time and fun-metrics passes on one non-empty list
\* Two senders; seconds: the hours 5, 6, 21 and 22 of one day.
FunMsgs ==
  {Msg(s, t, k) : s \in {"A", "B"},
                  t \in {5 * 3600, 6 * 3600, 21 * 3600, 22 * 3600},
                  k \in { <<"plain">>, <<"plain", "emoji">> }}

InitFun ==
  /\ ParserIdle
  /\ CacheOff
  /\ TsOff
  /\ AiOff
  /\ anPc = "fun"
  /\ chat \in UNION { [1..n -> FunMsgs] : n \in 1..MaxMsgs }
  /\ result = <<>>

\* Lines 23-24 and the fun_metrics entry of line 26: the three passes in
\* the order analyze_chat calls them.
AnalyzeFun ==
  \* list(set(...)), line 122: the set is iterated in any order.
  \E senders \in {q \in [1..Cardinality(SenderSet(chat)) -> SenderSet(chat)] :
                    \A i, j \in DOMAIN q : i # j => q[i] # q[j]} :
    /\ anPc = "fun"
    /\ result' = [emoji_personality |-> analyze_emoji_personality(chat),
                  time_analysis |-> analyze_time_patterns(chat),
                  fun_metrics |-> calculate_fun_metrics(chat, senders)]
    /\ anPc' = "fundone"
    /\ UNCHANGED <<chat, notAn>>

NextFun == AnalyzeFun

SpecFun == InitFun /\ [][NextFun]_vars

\* ------------------------------------ ai_summary.py: generate_insights
\* The five keys of the result of _parse_ai_response (line 117) and of the
\* fallback dict (line 51).
Sections ==
  {"personality_analysis", "relationship_dynamics", "conversation_style",
   "fun_facts", "overall_summary"}

\* Lines 55-68: the digest, reduced to what the fallback texts branch on.
prepare_chat_summary(msgs) ==
  [senders |-> SenderSet(msgs),
   total_messages |-> Len(msgs),
   sender_counts |-> message_counts(msgs)]

\* A result that carries the five sections; from names who wrote them.
SectionsFrom(from, summary) ==
  [kind |-> "sections", from |-> from, keys |-> Sections,
   pair |-> Cardinality(summary.senders) = 2, error |-> ""]

ErrorResult(e) ==
  [kind |-> "error", from |-> "", keys |-> {"error"}, pair |-> FALSE, error |-> e]

AiSenders == {"A", "B", "C"}

AiMsgs == {Msg(s, 0, k) : s \in AiSenders, k \in {<<"plain">>, <<"short">>}}

InitAi ==
  /\ ParserIdle
  /\ CacheOff
  /\ TsOff
  /\ anPc = "off"
  /\ chat \in UNION { [1..n -> AiMsgs] : n \in 0..MaxMsgs }
  /\ result = <<>>
  /\ aiPc = "start"
  /\ api_key \in BOOLEAN
  /\ api_working = FALSE
  /\ insights = <<>>

\* Lines 30-31: an empty list is answered with an error result.
NoMessages ==
  /\ aiPc = "start"
  /\ chat = <<>>
  /\ insights' = ErrorResult("No messages to analyze")
  /\ aiPc' = "done"
  /\ UNCHANGED <<api_key, api_working, notAi>>

\* Line 33: the digest is prepared.
PrepareChatSummary ==
  /\ aiPc = "start"
  /\ chat # <<>>
  /\ aiPc' = "test"
  /\ UNCHANGED <<api_key, api_working, insights, notAi>>

\* Lines 17-27 and 34: test_api_connection; without a key it answers False
\* at once, with a key it answers whether the test call came back.
TestApiConnection ==
  \E answered \in BOOLEAN :
    /\ aiPc = "test"
    /\ api_working' = (api_key /\ answered)
    /\ aiPc' = "tested"
    /\ UNCHANGED <<api_key, insights, notAi>>

\* Lines 35-37 and 52-53: the exception raised when the test failed is
\* caught by the outer handler, which returns an error result.
ConnectionFailed ==
  /\ aiPc = "tested"
  /\ ~api_working
  /\ insights' = ErrorResult("Failed to generate AI insights: API connection test failed")
  /\ aiPc' = "done"
  /\ UNCHANGED <<api_key, api_working, notAi>>

\* Lines 38-42: the collaborator answers and its sections are returned.
GenerateAllInsights ==
  /\ aiPc = "tested"
  /\ api_working
  /\ insights' = SectionsFrom("collaborator", prepare_chat_summary(chat))
  /\ aiPc' = "done"
  /\ UNCHANGED <<api_key, api_working, notAi>>

\* Lines 43-51: the call fails and the fallback generators write the
\* sections.
GenerateFallback ==
  /\ aiPc = "tested"
  /\ api_working
  /\ insights' = SectionsFrom("fallback", prepare_chat_summary(chat))
  /\ aiPc' = "done"
  /\ UNCHANGED <<api_key, api_working, notAi>>

NextAi ==
  \/ NoMessages
  \/ PrepareChatSummary
  \/ TestApiConnection
  \/ ConnectionFailed
  \/ GenerateAllInsights
  \/ GenerateFallback

SpecAi == InitAi /\ [][NextAi]_vars

\* ------------------------------------------------ utils.py: AnalyticsCache
CacheKeys == {"k1", "k2", "k3"}

\* Lines 89-92: an empty cache with a max_size of at least 1.
InitCache ==
  /\ ParserIdle
  /\ TsOff
  /\ AnOff
  /\ AiOff
  /\ cache = <<>>
  /\ access_times = <<>>
  /\ max_size \in 1..MaxSize
  /\ clock = 0
  /\ call = [op |-> "none", key |-> "", value |-> "", lru_key |-> ""]

\* min(self.access_times.keys(), key=lambda k: self.access_times[k]),
\* line 102.  Every reading of the clock is later than the one before, so
\* the minimum is unique.
LruKey(at) == CHOOSE k \in DOMAIN at : \A x \in DOMAIN at : at[k] <= at[x]

\* del d[k]
Del(d, k) == [x \in DOMAIN d \ {k} |-> d[x]]

\* d[k] = v
Put(d, k, v) == [x \in DOMAIN d \cup {k} |-> IF x = k THEN v ELSE d[x]]

\* Lines 94-98: get.
CacheGet ==
  \E k \in CacheKeys :
    /\ max_size >= 1
    /\ clock < MaxClock
    /\ call' = [op |-> "get", key |-> k, value |-> "", lru_key |-> ""]
    /\ IF k \in DOMAIN cache
       THEN /\ access_times' = Put(access_times, k, clock + 1)
            /\ clock' = clock + 1
       ELSE UNCHANGED <<access_times, clock>>
    /\ UNCHANGED <<cache, max_size, notCache>>

\* A variant that makes room only when the cache is over its size.
CacheSetLate ==
  \E k \in CacheKeys, v \in {"v1", "v2"} :
    LET full == Cardinality(DOMAIN cache) > max_size
        lru_key == IF full THEN LruKey(access_times) ELSE ""
    IN  /\ max_size >= 1
        /\ clock < MaxClock
        /\ call' = [op |-> "set", key |-> k, value |-> v, lru_key |-> lru_key]
        /\ cache' = Put(IF full THEN Del(cache, lru_key) ELSE cache, k, v)
        /\ access_times' =
             Put(IF full THEN Del(access_times, lru_key) ELSE access_times,
                 k, clock + 1)
        /\ clock' = clock + 1
        /\ UNCHANGED <<max_size, notCache>>

\* Lines 100-106: set.
CacheSet ==
  \E k \in CacheKeys, v \in {"v1", "v2"} :
    LET full == Cardinality(DOMAIN cache) >= max_size
        lru_key == IF full THEN LruKey(access_times) ELSE ""
    IN  /\ max_size >= 1
        /\ clock < MaxClock
        /\ call' = [op |-> "set", key |-> k, value |-> v, lru_key |-> lru_key]
        /\ cache' = Put(IF full THEN Del(cache, lru_key) ELSE cache, k, v)
        /\ access_times' =
             Put(IF full THEN Del(access_times, lru_key) ELSE access_times,
                 k, clock + 1)
        /\ clock' = clock + 1
        /\ UNCHANGED <<max_size, notCache>>

\* Lines 108-110: clear.
CacheClear ==
  /\ max_size >= 1
  /\ call' = [op |-> "clear", key |-> "", value |-> "", lru_key |-> ""]
  /\ cache' = <<>>
  /\ access_times' = <<>>
  /\ UNCHANGED <<max_size, clock, notCache>>

NextCache ==
  \/ CacheGet
  \/ CacheSet
  \/ CacheClear

SpecCache == InitCache /\ [][NextCache]_vars

\* ------------------------------------------------------------------ claims
TextPath == ext \in Exts \ {"json"}

JsonPath == ext = "json"

\* The filter the spec asks for at every flush.
Filtered(t) == t \in media_placeholders \/ IsBlank(t)

\* A JSON record that names a sender and carries a body.
WellFormed(r) ==
  r.senderKey \in {"sender_name", "sender"} /\ r.contentKey \in {"content", "text"}

\* t1 is an earlier point in time than t2.
TsBefore(t1, t2) ==
  \/ t1.mo < t2.mo
  \/ t1.mo = t2.mo /\ t1.d < t2.d
  \/ t1.mo = t2.mo /\ t1.d = t2.d /\ t1.h < t2.h

\* C1: when every line of the text input is a header line, the parser
\* returns one message per header line except those whose text is empty or
\* a media placeholder: every header line whose text survives the filter
\* yields its own message, also when the next line is a header line again.
\* (That nothing else is returned is the matter of C3.)
C1_RoundTrip ==
  ( /\ pc = "done"
    /\ TextPath
    /\ \A i \in 1..Len(input) : Classify(input[i]) \in HeaderKinds )
  => /\ Len(messages) >=
          Cardinality({i \in 1..Len(input) : ~Filtered(Strip(input[i].rest))})
     /\ \A i \in 1..Len(input) :
          ~Filtered(Strip(input[i].rest)) =>
            \E k \in 1..Len(messages) : messages[k].idx = i

\* C2: a header line followed by N >= 1 non-matching lines (and nothing
\* else) gives exactly one message whose text is the header's message and
\* the N lines, all joined by newlines, in order.
C2_Continuation ==
  LET text == Strip(input[1].rest) \o <<"NL">>
                \o Join([i \in 1..(Len(input) - 1) |-> LineText(input[i + 1])])
  IN  ( /\ pc = "done"
        /\ TextPath
        /\ Len(input) >= 2
        /\ Classify(input[1]) \in HeaderKinds
        /\ \A i \in 2..Len(input) : Classify(input[i]) = "none"
        /\ ~Filtered(text) )
      => /\ Len(messages) = 1
         /\ messages[1].message = text

\* C3: no message in the text parser's output has a text that is a media
\* placeholder, empty, or whitespace only.
C3_FilterPolicy ==
  TextPath =>
    \A k \in 1..Len(messages) : ~Filtered(messages[k].message)

\* C4: the output keeps the order of the header lines (or JSON records)
\* that opened the messages, each message carrying the timestamp of its own
\* opening line or record, whatever the order of the timestamps.
C4_FileOrder ==
  /\ \A j, k \in 1..Len(messages) : j < k => messages[j].idx < messages[k].idx
  /\ TextPath =>
       \A k \in 1..Len(messages) :
         /\ messages[k].idx \in 1..Len(input)
         /\ Classify(input[messages[k].idx]) \in HeaderKinds
         /\ \E n \in NowSet :
              messages[k].timestamp = ParseTimestamp(input[messages[k].idx].ts, n)
  /\ JsonPath =>
       \A k \in 1..Len(messages) :
         /\ messages[k].idx \in 1..Len(data.items)
         /\ messages[k].message \in {data.items[messages[k].idx].content, <<>>}

\* C4 witness: the text parser has returned two messages, the second with
\* an earlier timestamp than the first.
C4_Witness ==
  /\ pc = "done"
  /\ TextPath
  /\ Len(messages) >= 2
  /\ TsBefore(messages[2].timestamp, messages[1].timestamp)

C6_TimestampNonNull ==
  pc = "done" =>
    \A k \in 1..Len(messages) :
      ( JsonPath =>
          data.items[messages[k].idx].tsKey
            \in {"timestamp_ms", "created_at", "timestamp"} )
      => messages[k].timestamp # NullTs

\* C7: a file whose extension is not a supported one is rejected with an
\* error, never answered with a (possibly empty) message list.
C7_RejectsUnsupported ==
  (pc = "done" /\ ext \notin ALLOWED_EXTENSIONS) => outcome = "rejected"

\* C8: a JSON record without sender or without content is dropped, every
\* well-formed record is returned, and no returned message has a null
\* sender or an empty text.
C8_MalformedDropped ==
  (pc = "done" /\ JsonPath /\ data.shape \in {"messages_obj", "list"}) =>
    /\ \A k \in 1..Len(messages) :
         messages[k].sender # NoSender /\ messages[k].message # <<>>
    /\ \A i \in 1..Len(data.items) :
         WellFormed(data.items[i]) => \E k \in 1..Len(messages) : messages[k].idx = i

\* C9: each of the three container shapes (object with "messages", bare
\* array, object whose first list-of-dicts value is the array) returns the
\* records it holds.
C9_ContainerShapes ==
  ( /\ pc = "done"
    /\ JsonPath
    /\ data.shape \in {"messages_obj", "list", "other_obj"}
    /\ \A i \in 1..Len(data.items) : WellFormed(data.items[i]) )
  => /\ Len(messages) = Len(data.items)
     /\ \A i \in 1..Len(messages) : messages[i].idx = i

\* C10: analyze_chat never raises for a non-empty message list, whatever
\* the number of senders and also when a sender has no countable tokens,
\* no emojis or no retained response gap.
C10_NoRaise ==
  (anPc = "done" /\ chat # <<>>) => ~result.raised

\* The positions of the text input that hold a header line.
HeaderIdx == {i \in 1..Len(input) : Classify(input[i]) \in HeaderKinds}

\* The continuation lines of the header line at position i: the lines no
\* grammar matches between it and the next header line.
OwnLines(i) ==
  LET stop == Min({j \in HeaderIdx \cup {Len(input) + 1} : j > i})
      pos == SortedSeq({j \in (i + 1)..(stop - 1) : Classify(input[j]) = "none"})
  IN  [k \in 1..Len(pos) |-> LineText(input[pos[k]])]

WithSender(l) == match_android(l) \/ match_ios(l) \/ match_ig_text(l)

SystemOnly(l) == match_android_sys(l) \/ match_ios_sys(l)

\* The adjacent pairs the claims keep as a response of sender s: senders
\* differ and the gap lies strictly between 0 and 10080 minutes.
Kept(s) ==
  {i \in 2..Len(chat) :
     /\ chat[i].sender = s
     /\ chat[i - 1].sender # s
     /\ chat[i].ts - chat[i - 1].ts > 0
     /\ chat[i].ts - chat[i - 1].ts < 10080 * 60}

\* The kept gaps of sender s, in list order, in seconds.
KeptGaps(s) ==
  LET pos == SortedSeq(Kept(s))
  IN  [k \in 1..Len(pos) |-> chat[pos[k]].ts - chat[pos[k] - 1].ts]

\* The number of kept gaps of s of at least lo and less than hi minutes.
KeptIn(s, lo, hi) ==
  Cardinality({i \in Kept(s) : /\ chat[i].ts - chat[i - 1].ts >= lo * 60
                               /\ chat[i].ts - chat[i - 1].ts < hi * 60})

\* The counter of sender s and bucket b in the returned distribution.
DistCount(s, b) ==
  IF DistKey(s, b) \in DOMAIN result.response_distribution
  THEN result.response_distribution[DistKey(s, b)] ELSE 0

RECURSIVE SumFn(_)
\* The sum of the values of a function with a finite domain.
SumFn(f) ==
  IF DOMAIN f = {} THEN 0
  ELSE LET x == CHOOSE x \in DOMAIN f : TRUE
       IN  f[x] + SumFn([y \in DOMAIN f \ {x} |-> f[y]])

\* C11: analyze_chat of an empty message list returns the empty result and
\* does not raise.
C11_EmptyInput ==
  (anPc = "done" /\ chat = <<>>) => (~result.raised /\ result.keys = {})

\* C11 witness: the call on the empty list has returned.
C11_Witness == anPc = "done" /\ chat = <<>> /\ ~result.raised

\* C12: with exactly one distinct sender the compatibility index is score
\* 50 with the description 'Single person conversation', and the call does
\* not raise.
C12_SingleSender ==
  (anPc = "done" /\ Cardinality(SenderSet(chat)) = 1) =>
    /\ ~result.raised
    /\ result.compatibility_index =
         [score |-> 50, description |-> "Single person conversation"]

\* C12 witness: a list of several messages of one sender has been analysed.
C12_Witness ==
  /\ anPc = "done"
  /\ Len(chat) >= 2
  /\ Cardinality(SenderSet(chat)) = 1
  /\ result.compatibility_index.score = 50

\* C13 as stated: every kept gap of exactly 1.0 minute is counted in the
\* responding sender's "fast" counter, and the "instant" counter counts only
\* the gaps below one minute.
C13_OneMinuteIsFast ==
  anPc = "rtdone" =>
    \A s \in SenderSet(chat) :
      /\ DistCount(s, "fast") >= Cardinality({i \in Kept(s) : Gap(chat, i) = 60})
      /\ DistCount(s, "instant") = KeptIn(s, 0, 1)

\* C13 amended: every kept gap of exactly 1.0 minute is counted in the
\* responding sender's "very_fast" counter, and the "instant" counter
\* counts only the gaps below one minute.
C13_OneMinuteIsVeryFast ==
  anPc = "rtdone" =>
    \A s \in SenderSet(chat) :
      /\ DistCount(s, "very_fast") >= Cardinality({i \in Kept(s) : Gap(chat, i) = 60})
      /\ DistCount(s, "instant") = KeptIn(s, 0, 1)

\* C13 witness: a sender's only response came after exactly one minute and
\* sits in the "very_fast" counter.
C13_Witness ==
  /\ anPc = "rtdone"
  /\ \E s \in SenderSet(chat) :
       /\ KeptGaps(s) = <<60>>
       /\ DistCount(s, "very_fast") = 1
       /\ DistCount(s, "instant") = 0

\* C14: every reported affection score lies between 0 and 100 (the model
\* counts tenths).
C14_AffectionScale ==
  (anPc = "done" /\ chat # <<>> /\ ~result.raised) =>
    \A s \in DOMAIN result.affection_score.affection_scores :
      /\ 0 <= result.affection_score.affection_scores[s]
      /\ result.affection_score.affection_scores[s] <= 100 * 10

\* C15: for a non-empty list generate_insights returns the five sections,
\* from the collaborator or from the fallback generators, and never an
\* error result, also without an API key or when the connection test fails.
C15_AlwaysSections ==
  (aiPc = "done" /\ chat # <<>>) =>
    /\ insights.kind = "sections"
    /\ insights.keys = Sections
    /\ ~api_working => insights.from = "fallback"

\* C16: a line that matches no grammar while no message is open is kept
\* nowhere; the text of every returned message is made of its header line
\* and that header's own continuation lines; an input without a header
\* line returns no message.
C16_PreambleDiscarded ==
  TextPath =>
    /\ current = <<>> => (buffer = <<>> /\ messages = <<>>)
    /\ \A k \in 1..Len(messages) :
         LET i == messages[k].idx
             head == Strip(input[i].rest)
         IN  /\ i \in HeaderIdx
             /\ messages[k].message \in
                  {head, head \o Join(OwnLines(i)),
                   head \o <<"NL">> \o Join(OwnLines(i))}
    /\ (pc = "done" /\ HeaderIdx = {}) => messages = <<>>

\* C16 witness: a line before the first header line, then a header line,
\* and the parser has returned the header's message.
C16_Witness ==
  /\ pc = "done"
  /\ TextPath
  /\ Len(input) >= 2
  /\ Classify(input[1]) = "none"
  /\ Classify(input[2]) \in HeaderKinds
  /\ Len(messages) = 1
  /\ messages[1].idx = 2

\* C17: the open message is exactly one, opened by the last header line
\* and built from the first grammar that matches: a line that matches a
\* with-sender grammar gives a user message even when a system-only grammar
\* matches too, and a line only a system-only grammar matches gives a
\* message with null sender and is_system true.
C17_FirstGrammarWins ==
  (TextPath /\ HeaderIdx # {}) =>
    /\ Len(current) = 1
    /\ current[1].idx = Max(HeaderIdx)
    /\ LET l == input[current[1].idx]
       IN  /\ WithSender(l) =>
                /\ current[1].sender = l.sender
                /\ current[1].sender # NoSender
                /\ ~current[1].is_system
           /\ (~WithSender(l) /\ SystemOnly(l)) =>
                /\ current[1].sender = NoSender
                /\ current[1].is_system

\* C17 witness: the open message came from a line that matches both the
\* Android with-sender grammar and the Android system grammar.
C17_Witness ==
  /\ TextPath
  /\ current # <<>>
  /\ match_android(input[current[1].idx])
  /\ match_android_sys(input[current[1].idx])
  /\ ~current[1].is_system
  /\ \E i \in HeaderIdx : ~WithSender(input[i])

\* C18 as stated: every day-first template stands before every month-first
\* template, and a string both kinds parse is read day-first.
C18_DayFirstPrecedes ==
  tsPc = "returned" =>
    /\ \A i, j \in 1..Len(Fmts) :
         (Fmts[i].order = "dmy" /\ Fmts[j].order = "mdy") => i < j
    /\ ( \E i, j \in FmtHits(tsRaw) :
           Fmts[i].order = "dmy" /\ Fmts[j].order = "mdy" )
       => /\ tsResult.src = "fmt"
          /\ Fmts[tsResult.fmt].order = "dmy"

\* C18 amended: every day-first template occurs before every month-first
\* template (one of them is listed once more after the month-first ones),
\* the first template that parses wins, and a string both kinds parse is
\* read day-first.
C18_DayFirstWins ==
  tsPc = "returned" =>
    /\ \A i, j \in 1..Len(Fmts) :
         (Fmts[i].order = "dmy" /\ Fmts[j].order = "mdy") =>
           \E k \in 1..(j - 1) : Fmts[k] = Fmts[i]
    /\ tsResult.src = "fmt" => tsResult.fmt = Min(FmtHits(tsRaw))
    /\ ( \E i, j \in FmtHits(tsRaw) :
           Fmts[i].order = "dmy" /\ Fmts[j].order = "mdy" )
       => /\ tsResult.src = "fmt"
          /\ Fmts[tsResult.fmt].order = "dmy"
          /\ tsResult.d = tsRaw.a
          /\ tsResult.mo = tsRaw.b

\* C18 witness: 3/5 with a two-digit year and a 12-hour clock, valid under
\* a day-first and a month-first template, came back as the 3rd of May.
C18_Witness ==
  /\ tsPc = "returned"
  /\ tsRaw.a = 3
  /\ tsRaw.b = 5
  /\ \E j \in FmtHits(tsRaw) : Fmts[j].order = "mdy"
  /\ tsResult.d = 3
  /\ tsResult.mo = 5

\* C19: a gap is kept only for adjacent messages of different senders and
\* only when it lies strictly between 0 and 10080 minutes; the averages,
\* medians, percentiles and counters are made of the kept gaps alone.
C19_RetainedGaps ==
  anPc = "rtdone" =>
    /\ DOMAIN result.response_times = {s \in SenderSet(chat) : Kept(s) # {}}
    /\ DOMAIN result.average_response_times = DOMAIN result.response_times
    /\ DOMAIN result.median_response_times = DOMAIN result.response_times
    /\ DOMAIN result.percentile_response_times = DOMAIN result.response_times
    /\ \A s \in DOMAIN result.response_times :
         LET gaps == KeptGaps(s)
             shown == {Tenths(gaps[k], 1) : k \in 1..Len(gaps)}
         IN  /\ result.response_times[s] = gaps
             /\ result.average_response_times[s] = Tenths(SumSeq(gaps), Len(gaps))
             /\ result.median_response_times[s] \in shown
             /\ \A q \in {"p25", "p75", "p90", "min", "max"} :
                  result.percentile_response_times[s][q] \in shown
    /\ SumFn(result.response_distribution) =
         SumFn([s \in SenderSet(chat) |-> Cardinality(Kept(s))])

\* C19 witness: of two answers by different senders one is kept and the
\* other, after a gap of zero or of a full week, is not.
C19_Witness ==
  /\ anPc = "rtdone"
  /\ \E i, j \in 2..Len(chat) :
       /\ chat[i].sender # chat[i - 1].sender
       /\ chat[j].sender # chat[j - 1].sender
       /\ Gap(chat, i) \in {0, 10080 * 60}
       /\ Gap(chat, j) = 60
  /\ SumFn(result.response_distribution) = 1

\* C20: each of a sender's seven counters holds the number of that
\* sender's kept gaps in its range (instant <1, very_fast <5, fast <15,
\* medium <60, slow <180, very_slow <1440, delivered >=1440, a gap on a
\* threshold in the upper bucket), so the seven sum to the number of the
\* sender's kept gaps.
C20_BucketSums ==
  anPc = "rtdone" =>
    \A s \in SenderSet(chat) :
      /\ DistCount(s, "instant") = KeptIn(s, 0, 1)
      /\ DistCount(s, "very_fast") = KeptIn(s, 1, 5)
      /\ DistCount(s, "fast") = KeptIn(s, 5, 15)
      /\ DistCount(s, "medium") = KeptIn(s, 15, 60)
      /\ DistCount(s, "slow") = KeptIn(s, 60, 180)
      /\ DistCount(s, "very_slow") = KeptIn(s, 180, 1440)
      /\ DistCount(s, "delivered") = KeptIn(s, 1440, 10080)
      /\ SumFn([b \in Buckets |-> DistCount(s, b)]) = Cardinality(Kept(s))

\* C21: one conversation start goes to the sender of the first message and
\* one to the sender of every later message more than 30 minutes after its
\* predecessor; a gap of exactly 30 minutes or a negative gap starts none,
\* so the starts total 1 plus the number of such gaps.
C21_ConversationStarts ==
  (anPc = "starters" /\ chat # <<>>) =>
    LET late == {i \in 2..Len(chat) : chat[i].ts - chat[i - 1].ts > 30 * 60}
        credit(s) == (IF chat[1].sender = s THEN 1 ELSE 0)
                       + Cardinality({i \in late : chat[i].sender = s})
        starts == result.conversation_starts
    IN  /\ \A s \in SenderSet(chat) :
             (IF s \in DOMAIN starts THEN starts[s] ELSE 0) = credit(s)
        /\ DOMAIN starts \subseteq SenderSet(chat)
        /\ SumFn(starts) = 1 + Cardinality(late)

\* C21 witness: three messages, the second exactly 30 minutes after the
\* first and the third 31 minutes after the second: two starts.
C21_Witness ==
  /\ anPc = "starters"
  /\ Len(chat) = 3
  /\ Gap(chat, 2) = 30 * 60
  /\ Gap(chat, 3) = 31 * 60
  /\ SumFn(result.conversation_starts) = 2

\* C22: longest_gap is the largest number of message-free days between
\* two consecutive active days, wherever it lies in the timeline.
C22_LongestGap ==
  (anPc = "streaks" /\ chat # <<>>) =>
    LET dates == SortedSeq(ActiveDays(chat))
    IN  result.longest_gap =
          Max({0} \cup {dates[i] - dates[i - 1] - 1 : i \in 2..Len(dates)})

\* C23: for every calendar day with a message the recorded first sender
\* sent a message with the day's minimum timestamp, whatever the positions
\* in the list; the first-day counts of the senders sum to the number of
\* days.
C23_FirstOfDay ==
  (anPc = "first" /\ chat # <<>>) =>
    /\ DOMAIN result.daily_first_messages = ActiveDays(chat)
    /\ \A d \in ActiveDays(chat) :
         \E i \in 1..Len(chat) :
           /\ DayOf(chat[i].ts) = d
           /\ chat[i].sender = result.daily_first_messages[d].sender
           /\ \A j \in 1..Len(chat) :
                DayOf(chat[j].ts) = d => chat[i].ts <= chat[j].ts
    /\ \A s \in DOMAIN result.sender_first_counts :
         result.sender_first_counts[s] =
           Cardinality({d \in ActiveDays(chat) :
                          result.daily_first_messages[d].sender = s})
    /\ SumFn(result.sender_first_counts) = Cardinality(ActiveDays(chat))

\* C23 witness: on one day the later message of the list is the earlier
\* one by the clock, from another sender, and it is the recorded first.
C23_Witness ==
  /\ anPc = "first"
  /\ \E i, j \in 1..Len(chat) :
       /\ i < j
       /\ DayOf(chat[i].ts) = DayOf(chat[j].ts)
       /\ chat[j].ts < chat[i].ts
       /\ chat[j].sender # chat[i].sender
       /\ \A k \in 1..Len(chat) :
            DayOf(chat[k].ts) = DayOf(chat[j].ts) => chat[j].ts <= chat[k].ts
       /\ result.daily_first_messages[DayOf(chat[j].ts)].sender = chat[j].sender

\* The number of emoji runs in the messages of sender s.
EmojiTotal(s) ==
  SumSeq([k \in 1..Len(chat) |->
            IF chat[k].sender = s THEN CountOf(chat[k].tokens, {"emoji", "affEmoji"})
            ELSE 0])

\* The sender with the highest emoji total, the first-seen one among equals.
FirstSeenEmojiLeader ==
  LET order == SenderOrder(chat)
      best == Max({EmojiTotal(x) : x \in SenderSet(chat)})
  IN  order[Min({k \in 1..Len(order) : EmojiTotal(order[k]) = best})]

\* C24: the emoji leader is the sender with the highest emoji total, among
\* equals the one seen first in the message list, also when nobody used an
\* emoji; so one message list has one leader.
C24_EmojiLeader ==
  anPc = "fundone" =>
    /\ result.fun_metrics.emoji_leader = FirstSeenEmojiLeader
    /\ (\E s \in SenderSet(chat) : EmojiTotal(s) > 0)
         => result.emoji_personality.emoji_king = FirstSeenEmojiLeader

\* The messages of sender s in the night hours [22,24) and [0,6).
NightCount(s) ==
  Cardinality({i \in 1..Len(chat) :
                 /\ chat[i].sender = s
                 /\ HourOf(chat[i].ts) \in (22..23) \cup (0..5)})

\* The messages of sender s in the day hours [6,22).
DayCount(s) ==
  Cardinality({i \in 1..Len(chat) :
                 chat[i].sender = s /\ HourOf(chat[i].ts) \in 6..21})

\* C25: both night_owl values name a sender with the highest message count
\* in the hours [22,24) and [0,6), early_bird names one with the highest
\* count in [6,22), and every message counts in exactly one of the ranges.
C25_NightOwl ==
  anPc = "fundone" =>
    /\ \A s \in SenderSet(chat) :
         /\ NightCount(s) + DayCount(s) = Cardinality(IdxOf(chat, s))
         /\ NightCount(s) <= NightCount(result.time_analysis.night_owl)
         /\ NightCount(s) <= NightCount(result.fun_metrics.night_owl)
         /\ DayCount(s) <= DayCount(result.time_analysis.early_bird)

\* C26: a chat whose number of senders is not two gets the fixed neutral
\* compatibility value, never a score computed from two of the senders,
\* and the call does not raise.
C26_NotTwoSenders ==
  (anPc = "done" /\ chat # <<>> /\ Cardinality(SenderSet(chat)) # 2) =>
    /\ ~result.raised
    /\ result.compatibility_index.score = 50
    /\ result.compatibility_index.description = "Single person conversation"

\* The keys of the passes of the result map.
PassKeys ==
  {"basic_stats", "conversation_starters", "response_time_analysis",
   "affection_score", "streaks_gaps", "compatibility_index", "who_thinks_first"}

\* C27: when a pass raises, analyze_chat still returns a result map with
\* the keys of all passes, the failed one holding a neutral value.
C27_PassIsolation ==
  (anPc = "done" /\ chat # <<>>) => PassKeys \subseteq result.keys

C29_CacheBounded ==
  max_size >= 1 =>
    /\ Cardinality(DOMAIN cache) <= max_size
    /\ DOMAIN cache = DOMAIN access_times

\* C29 witness: a set on a full cache has deleted an entry and the cache is
\* full again.
C29_Witness ==
  /\ call.op = "set"
  /\ call.lru_key # ""
  /\ call.lru_key \notin DOMAIN cache
  /\ Cardinality(DOMAIN cache) = max_size

\* C30: a set on a full cache removes an entry only when its key is new,
\* and then exactly the least recently accessed key; a set of a cached key
\* overwrites the value and leaves every other entry in place.
C30_EvictOnlyForNewKey ==
  [][ (call'.op = "set" /\ clock' # clock
         /\ Cardinality(DOMAIN cache) >= max_size)
      => IF call'.key \in DOMAIN cache
         THEN cache' = [cache EXCEPT ![call'.key] = call'.value]
         ELSE cache' = [x \in (DOMAIN cache \ {LruKey(access_times)})
                               \cup {call'.key} |->
                          IF x = call'.key THEN call'.value ELSE cache[x]] ]_vars

====
